---- MODULE Spec2Model ----
(***************************************************************************)
(* Model of gitlab_migration_helper: the retention policy                  *)
(* (PreservationPolicy), the candidate extraction, the branch validation,  *)
(* the four pruning steps and the per-project loop of main().              *)
(*                                                                         *)
(* Representation.                                                         *)
(*   - An optional value (Python None or a value) is a sequence of length  *)
(*     0 or 1: None is <<>>, the value v is <<v>>.                         *)
(*   - An instant is an integer number of clock ticks; Day ticks make one  *)
(*     day.  A created_at string that matches dt_format is represented by  *)
(*     the instant it denotes (>= 0); a string strptime rejects is         *)
(*     represented by Malformed (< 0).                                     *)
(*   - A raised exception is a record field exc /= "none".                 *)
(***************************************************************************)
EXTENDS Integers, Sequences, FiniteSets, TLC

VARIABLES
    flags,                \* main(): dry_run, include_archived_projects,
                          \*   prompt_every_project, export_locally, has_destination
    preservation_policy,  \* main(): the PreservationPolicy object (its three fields)
    preserve_branches,    \* main(): the user's --pb names
    nprojects,            \* main(): len(projects), the group's project list
    idx,                  \* main(): position of the for loop in projects (1-based)
    pc,                   \* main(): the statement the run is at
    project,              \* the remote content of the project in hand
    exclude_branch_refs,  \* main(): the list object returned by step 1
    calls,                \* the remote calls made on the project in hand
    clock,                \* the wall clock, datetime.today()
    reads,                \* the clock readings the last call took, in order
    ret                   \* what the last call returned or raised

\* The arguments of main(), which no statement of the program assigns.
args == <<flags, preservation_policy, nprojects>>

vars == <<flags, preservation_policy, preserve_branches, nprojects, idx, pc,
          project, exclude_branch_refs, calls, clock, reads, ret>>

-----------------------------------------------------------------------------
(* Bounds of the model.                                                    *)

MaxProjects == 2     \* projects in the group
MaxItems == 3        \* pipelines or releases handed to one extraction
MaxTime == 2         \* created_at instants range over 0..MaxTime
MaxRetain == 3       \* retain_number_of_instances ranges over 0..MaxRetain
MaxAge == 1          \* maximum_age_in_days ranges over -1..MaxAge
MaxDrift == 1        \* ticks the clock may be ahead of or behind Today
MaxTimed == 2        \* items of one extraction that reads the clock per item
MaxRequested == 2    \* names in one requested branch list
MaxPipelines == 2    \* pipelines of a project in the pruning pass

Day == 2             \* clock ticks per day, timedelta(days=1)
Today == 3           \* the clock at the start of a run
Malformed == -1      \* a created_at string that does not match dt_format

-----------------------------------------------------------------------------
(* Optional values.                                                        *)

None == <<>>
Some(v) == <<v>>
IsNone(o) == o = <<>>
Val(o) == o[1]

Max2(a, b) == IF a >= b THEN a ELSE b

RECURSIVE SeqsUpTo(_, _)
SeqsUpTo(S, n) ==
    IF n = 0 THEN {<<>>}
    ELSE LET shorter == SeqsUpTo(S, n - 1)
         IN  shorter \cup {Append(s, x) : s \in {t \in shorter : Len(t) = n - 1}, x \in S}

Range(s) == {s[i] : i \in 1..Len(s)}

-----------------------------------------------------------------------------
(* PreservationPolicy, pruning.py 15-77.                                   *)

\* The three fields as given to the constructor.
Policy(retain, age, date) ==
    [retain_number_of_instances |-> retain,
     maximum_age_in_days |-> age,
     minimum_creation_date |-> date]

\* Field(gt=0) on retain_number_of_instances, Field(ge=0) on maximum_age_in_days.
FieldsValid(p) ==
    /\ IsNone(p.retain_number_of_instances) \/ Val(p.retain_number_of_instances) > 0
    /\ IsNone(p.maximum_age_in_days) \/ Val(p.maximum_age_in_days) >= 0

\* Mutant of CheckMutualExclusive: the elif branch (no field given) is lost.
CheckMutualExclusiveNoEmptyCheck(p) ==
    IF (~IsNone(p.maximum_age_in_days) \/ ~IsNone(p.minimum_creation_date))
       /\ ~IsNone(p.retain_number_of_instances)
    THEN "ValueError" ELSE "ok"

\* __check_mutual_exclusive: "ok" when it returns self, "ValueError" when it raises.
CheckMutualExclusive(p) ==
    LET max_age_given == ~IsNone(p.maximum_age_in_days)
        min_creation_given == ~IsNone(p.minimum_creation_date)
        number_of_items_given == ~IsNone(p.retain_number_of_instances)
    IN  IF max_age_given \/ min_creation_given
        THEN IF number_of_items_given THEN "ValueError" ELSE "ok"
        ELSE IF ~number_of_items_given THEN "ValueError" ELSE "ok"

\* PreservationPolicy(...): field validation, then the "after" model validator.
Construct(p) ==
    IF ~FieldsValid(p) THEN "ValidationError" ELSE CheckMutualExclusive(p)

\* Mutant of MinimumAllowedCreatedAt: min() where the code has max().
MinimumAllowedCreatedAtEarlier(p, today) ==
    IF ~IsNone(p.maximum_age_in_days) /\ ~IsNone(p.minimum_creation_date)
    THEN LET byAge == today - Val(p.maximum_age_in_days) * Day
         IN  Some(IF byAge <= Val(p.minimum_creation_date)
                  THEN byAge ELSE Val(p.minimum_creation_date))
    ELSE IF ~IsNone(p.maximum_age_in_days)
    THEN Some(today - Val(p.maximum_age_in_days) * Day)
    ELSE p.minimum_creation_date

\* minimum_allowed_created_at, evaluated when the clock reads today.
MinimumAllowedCreatedAt(p, today) ==
    LET maximum_age_given == ~IsNone(p.maximum_age_in_days)
        minimum_date_given == ~IsNone(p.minimum_creation_date)
    IN  IF maximum_age_given /\ minimum_date_given
        THEN Some(Max2(today - Val(p.maximum_age_in_days) * Day,
                       Val(p.minimum_creation_date)))
        ELSE IF maximum_age_given
        THEN Some(today - Val(p.maximum_age_in_days) * Day)
        ELSE IF minimum_date_given
        THEN p.minimum_creation_date
        ELSE None

\* Whether evaluating minimum_allowed_created_at reads the clock.
ReadsClock(p) == ~IsNone(p.maximum_age_in_days)

-----------------------------------------------------------------------------
(* extract_deletion_candidates, pruning.py 116-170.                        *)

\* datetime.strptime(x.created_at, dt_format) raises ValueError.
ParseFails(x) == x.created_at < 0

\* Mutant of InsertDesc: an item goes in front of the items of its own date.
RECURSIVE InsertDescUnstable(_, _)
InsertDescUnstable(s, x) ==
    IF s = <<>> THEN <<x>>
    ELSE IF Head(s).created_at > x.created_at
         THEN <<Head(s)>> \o InsertDescUnstable(Tail(s), x)
         ELSE <<x>> \o s

\* sorted(..., key=created_at, reverse=True): stable, most recent first.
RECURSIVE InsertDesc(_, _)
InsertDesc(s, x) ==
    IF s = <<>> THEN <<x>>
    ELSE IF Head(s).created_at >= x.created_at
         THEN <<Head(s)>> \o InsertDesc(Tail(s), x)
         ELSE <<x>> \o s

RECURSIVE SortedDesc(_)
SortedDesc(items) ==
    IF items = <<>> THEN <<>>
    ELSE InsertDesc(SortedDesc(SubSeq(items, 1, Len(items) - 1)), items[Len(items)])

\* Mutant of ByCount: the slice starts one place early.
ByCountOffByOne(all_candidates, number_of_instances) ==
    IF number_of_instances < Len(all_candidates)
    THEN SubSeq(all_candidates, number_of_instances, Len(all_candidates))
    ELSE <<>>

\* all_candidates[number_of_instances:] guarded by number_of_instances < len(...).
ByCount(all_candidates, number_of_instances) ==
    IF number_of_instances < Len(all_candidates)
    THEN SubSeq(all_candidates, number_of_instances + 1, Len(all_candidates))
    ELSE <<>>

\* Mutant of IsOlder: <= where the code has <.
IsOlderOrEqual(candidate, p, today) ==
    candidate.created_at <= Val(MinimumAllowedCreatedAt(p, today))

\* The comparison of line 168 for the i-th candidate, the clock reading rd[i].
IsOlder(candidate, p, today) ==
    candidate.created_at < Val(MinimumAllowedCreatedAt(p, today))

\* The for loop of lines 163-169; rd[i] is the clock at the i-th evaluation.
RECURSIVE ByAge(_, _, _, _)
ByAge(all_candidates, p, rd, i) ==
    IF i > Len(all_candidates) THEN <<>>
    ELSE (IF IsOlder(all_candidates[i], p, rd[i])
          THEN <<all_candidates[i]>> ELSE <<>>)
         \o ByAge(all_candidates, p, rd, i + 1)

\* The whole function on the listed items: exc is "ValueError" when a created_at
\* does not parse (raised by the sort key, before any candidate is chosen).
ExtractDeletionCandidates(items, p, rd) ==
    IF \E i \in 1..Len(items) : ParseFails(items[i])
    THEN [exc |-> "ValueError", value |-> <<>>]
    ELSE LET all_candidates == SortedDesc(items)
         IN  [exc |-> "none",
              value |-> IF ~IsNone(p.retain_number_of_instances)
                        THEN ByCount(all_candidates, Val(p.retain_number_of_instances))
                        ELSE ByAge(all_candidates, p, rd, 1)]

\* What datetime.today() may return: the naive local wall clock, which moves
\* forward and, when it is adjusted or daylight saving time ends, back.
ClockRange == (Today - MaxDrift)..(Today + MaxDrift)

\* The clock readings one extraction of n items may see, the clock standing
\* at c before it: one reading per evaluation, each any time of the range,
\* later or earlier than the one before.
ClockReads(n, c) == [1..n -> ClockRange]

-----------------------------------------------------------------------------
(* validate_branch_list, pruning.py 216-263.                               *)

DefaultBranches == <<"main", "master">>

\* list.remove(b): drops the first occurrence of b.
RECURSIVE RemoveFirst(_, _)
RemoveFirst(s, b) ==
    IF s = <<>> THEN <<>>
    ELSE IF Head(s) = b THEN Tail(s)
    ELSE <<Head(s)>> \o RemoveFirst(Tail(s), b)

\* Mutant of ValidateLoop: every missing name is dropped, none is an error.
RECURSIVE ValidateLoopDropsAll(_, _, _)
ValidateLoopDropsAll(todo, branch_list, existing) ==
    IF todo = <<>> THEN [exc |-> "none", value |-> branch_list, list |-> branch_list]
    ELSE IF Head(todo) \notin existing
         THEN ValidateLoopDropsAll(Tail(todo), RemoveFirst(branch_list, Head(todo)), existing)
         ELSE ValidateLoopDropsAll(Tail(todo), branch_list, existing)

\* The loop of lines 252-262 over the copy `todo`, branch_list being the list
\* mutated in place.
RECURSIVE ValidateLoop(_, _, _)
ValidateLoop(todo, branch_list, existing) ==
    IF todo = <<>> THEN [exc |-> "none", value |-> branch_list, list |-> branch_list]
    ELSE LET b == Head(todo)
         IN  IF b \notin existing
             THEN IF b \in Range(DefaultBranches)
                  THEN ValidateLoop(Tail(todo), RemoveFirst(branch_list, b), existing)
                  ELSE [exc |-> "UnknownBranch", value |-> <<>>, list |-> branch_list]
             ELSE ValidateLoop(Tail(todo), branch_list, existing)

\* validate_branch_list(branch=<a list>): value is what is returned, list is the
\* caller's list object after the call (the same object, mutated in place).
ValidateBranchList(branch, existing) ==
    IF Len(branch) < 1
    THEN [exc |-> "EmptyBranchList", value |-> <<>>, list |-> branch]
    ELSE ValidateLoop(branch, branch, existing)

\* validate_branch_list(branch=<a str>): len() is the string's length, and the
\* list is a fresh one-element list.
ValidateBranchStr(branch, existing) ==
    IF branch = ""
    THEN [exc |-> "EmptyBranchList", value |-> <<>>, list |-> <<>>]
    ELSE ValidateLoop(<<branch>>, <<branch>>, existing)

-----------------------------------------------------------------------------
(* get_rectified_branches_refs, gitlab_utils.py 84-114.                    *)

\* Mutant of RectifyLoop: a name whose validation raised stays in the list.
RECURSIVE RectifyLoopKeepsUnknown(_, _)
RectifyLoopKeepsUnknown(candidates, existing) ==
    IF candidates = <<>> THEN <<>>
    ELSE LET r == ValidateBranchStr(Head(candidates), existing)
         IN  (IF r.exc = "none" THEN r.value ELSE <<Head(candidates)>>)
             \o RectifyLoopKeepsUnknown(Tail(candidates), existing)

\* for branch in branch_ref_candidates: try: branch_refs += validate_branch_list(
\* project, branch) except ArgumentError: the name is omitted, lines 101-110.
RECURSIVE RectifyLoop(_, _)
RectifyLoop(candidates, existing) ==
    IF candidates = <<>> THEN <<>>
    ELSE LET r == ValidateBranchStr(Head(candidates), existing)
         IN  (IF r.exc = "none" THEN r.value ELSE <<>>)
             \o RectifyLoop(Tail(candidates), existing)

\* Mutant of GetRectifiedBranchesRefs: a default already in the list is not
\* added again.
GetRectifiedBranchesRefsOnce(branches_to_validate, existing, extend_with_defaults) ==
    LET branch_refs == RectifyLoop(branches_to_validate, existing)
    IN  branch_refs
        \o (IF extend_with_defaults
            THEN SelectSeq(DefaultBranches, LAMBDA b : b \notin Range(branch_refs))
            ELSE <<>>)

\* branch_refs of the loop, then branch_refs += ["main", "master"], lines 99-114.
GetRectifiedBranchesRefs(branches_to_validate, existing, extend_with_defaults) ==
    RectifyLoop(branches_to_validate, existing)
    \o (IF extend_with_defaults THEN DefaultBranches ELSE <<>>)

-----------------------------------------------------------------------------
(* The remote project and the inputs the model draws.                      *)

BranchOrder == <<"main", "master", "dev", "feat">>
BranchNames == Range(BranchOrder)

\* project.branches.list(): the names of a set of branches, in the server's order.
BranchesOf(S) == SelectSeq(BranchOrder, LAMBDA b : b \in S)

\* A pipeline (id, ref, created_at) and a release (tag_name, created_at).
Pipeline(i, r, t) == [id |-> i, ref |-> r, created_at |-> t]
Release(i, t) == [tag_name |-> i, created_at |-> t]

Stamps == 0..MaxTime \cup {Malformed}

NoProject == [archived |-> FALSE, branches |-> <<>>, pipelines |-> <<>>, releases |-> <<>>]

\* The remote calls made on the project in hand, in the order they were made.
NoCalls ==
    [steps |-> <<>>,             \* the operations of main() started on the project
     pipelines_fetched |-> 0,    \* project.pipelines.list() calls that returned
     step2_listed |-> <<>>,      \* what project.pipelines.list() gave step 2
     step2_deleted |-> <<>>,     \* pipeline.delete() of delete_non_protected_branch_pipelines
     branches_deleted |-> <<>>,  \* branch.delete() of delete_branches
     step4_listed |-> <<>>,      \* what project.pipelines.list() gave delete_pipelines
     step4_deleted |-> <<>>,     \* pipeline.delete() of delete_pipelines
     releases_deleted |-> <<>>,  \* project.releases.delete() of delete_releases
     exported |-> 0,             \* project.exports.create()
     imported |-> 0,             \* gl.projects.import_project()
     variables_created |-> 0]    \* destination_project.variables.create()

Returned(v) == [exc |-> "none", value |-> v]
Raised(e) == [exc |-> e, value |-> <<>>]

\* The valid policies: those the constructor accepts.
RawPolicies ==
    {Policy(r, a, d) :
        r \in {None} \cup {Some(n) : n \in 0..MaxRetain},
        a \in {None} \cup {Some(n) : n \in (-1)..MaxAge},
        d \in {None} \cup {Some(t) : t \in 0..MaxTime}}
ValidPolicies == {p \in RawPolicies : Construct(p) = "ok"}

\* The names a caller may ask to protect: the branch names and the empty string.
RequestNames == BranchNames \cup {""}

Existing(p) == Range(p.branches)

\* base.list(...) for the candidate type, lines 135-141 and 146-149.
Listed(p, candidate_type) ==
    IF candidate_type = "pipeline" THEN p.pipelines ELSE p.releases

\* How many times one extraction evaluates minimum_allowed_created_at with a
\* read of the clock: once per sorted candidate, in age mode with
\* maximum_age_in_days set, and never when the sort key raised.
Evaluations(items, p) ==
    IF /\ IsNone(p.retain_number_of_instances)
       /\ ReadsClock(p)
       /\ \A i \in 1..Len(items) : ~ParseFails(items[i])
    THEN Len(items) ELSE 0

Ids(items) == [i \in 1..Len(items) |-> items[i].id]
Tags(items) == [i \in 1..Len(items) |-> items[i].tag_name]

-----------------------------------------------------------------------------
(* PreservationPolicy: construction and the computed field.                *)

NoFlags ==
    [dry_run |-> TRUE, include_archived_projects |-> FALSE,
     prompt_every_project |-> FALSE, export_locally |-> FALSE,
     has_destination |-> FALSE]

InitPolicy ==
    /\ flags = NoFlags
    /\ preservation_policy \in RawPolicies
    /\ preserve_branches = <<>>
    /\ nprojects = 0
    /\ idx = 1
    /\ pc = "construct"
    /\ project = NoProject
    /\ exclude_branch_refs = <<>>
    /\ calls = NoCalls
    /\ clock = Today
    /\ reads = <<>>
    /\ ret = Returned(<<>>)

\* PreservationPolicy(retain_number_of_instances=..., ...), cli.py 275-279.
ConstructPolicy ==
    /\ pc = "construct"
    /\ LET r == Construct(preservation_policy)
       IN  /\ ret' = IF r = "ok" THEN Returned(<<>>) ELSE Raised(r)
           /\ pc' = IF r = "ok" THEN "constructed" ELSE "invalid_policy"
    /\ UNCHANGED <<args, preserve_branches, idx, project, exclude_branch_refs,
                   calls, clock, reads>>

\* A read of policy.minimum_allowed_created_at.
ReadCutoff ==
    /\ pc \in {"constructed", "cutoff"}
    /\ ret' = Returned(MinimumAllowedCreatedAt(preservation_policy, clock))
    /\ reads' = IF ReadsClock(preservation_policy) THEN <<clock>> ELSE <<>>
    /\ pc' = "cutoff"
    /\ UNCHANGED <<args, preserve_branches, idx, project, exclude_branch_refs,
                   calls, clock>>

\* The wall clock moves, forward or back.
Tick ==
    /\ clock' \in ClockRange \ {clock}
    /\ UNCHANGED <<args, preserve_branches, idx, pc, project, exclude_branch_refs,
                   calls, reads, ret>>

NextPolicy == ConstructPolicy \/ ReadCutoff \/ Tick

SpecPolicy == InitPolicy /\ [][NextPolicy]_vars

-----------------------------------------------------------------------------
(* C8, C9: the policy.                                                     *)

CountSelected(p) == ~IsNone(p.retain_number_of_instances)
AgeSelected(p) == ~IsNone(p.maximum_age_in_days) \/ ~IsNone(p.minimum_creation_date)

\* C8: for field values within their declared ranges, construction succeeds
\* exactly when one mode is selected (count, or age by at least one date
\* field, not both and not neither); whatever the values, it fails when
\* retain_number_of_instances comes with a date field and when no field is
\* given, and a constructed policy is count-mode or age-mode, never both.
C8_ConstructionIffOneMode ==
    pc # "construct" =>
        LET p == preservation_policy
            succeeded == pc # "invalid_policy"
        IN  /\ FieldsValid(p) => (succeeded <=> (CountSelected(p) # AgeSelected(p)))
            /\ (CountSelected(p) /\ AgeSelected(p)) => ~succeeded
            /\ (~CountSelected(p) /\ ~AgeSelected(p)) => ~succeeded
            /\ succeeded => (CountSelected(p) # AgeSelected(p))

\* A construction with a count and a date field, both in range, was refused.
C8_Witness ==
    /\ pc = "invalid_policy"
    /\ ret.exc = "ValueError"
    /\ FieldsValid(preservation_policy)
    /\ CountSelected(preservation_policy)
    /\ ~IsNone(preservation_policy.minimum_creation_date)

\* C9: the cutoff read from a constructed policy is the later of
\* today - maximum_age_in_days and minimum_creation_date when both are set,
\* the one date given when one is set, and None for a count-mode policy.
C9_EffectiveCutoff ==
    pc = "cutoff" =>
        LET p == preservation_policy
            a == p.maximum_age_in_days
            d == p.minimum_creation_date
        IN  /\ (~IsNone(a) /\ ~IsNone(d)) =>
                  LET byAge == reads[1] - Val(a) * Day
                      c == Val(ret.value)
                  IN  /\ c \in {byAge, Val(d)}
                      /\ c >= byAge
                      /\ c >= Val(d)
            /\ (~IsNone(a) /\ IsNone(d)) => ret.value = Some(reads[1] - Val(a) * Day)
            /\ (IsNone(a) /\ ~IsNone(d)) => ret.value = d
            /\ CountSelected(p) => ret.value = None

\* The cutoff was read from a policy with both date fields, and
\* minimum_creation_date, the later of the two dates, was returned.
C9_Witness ==
    /\ pc = "cutoff"
    /\ ~IsNone(preservation_policy.maximum_age_in_days)
    /\ ~IsNone(preservation_policy.minimum_creation_date)
    /\ Len(reads) = 1
    /\ Val(ret.value) = Val(preservation_policy.minimum_creation_date)
    /\ Val(ret.value) > reads[1] - Val(preservation_policy.maximum_age_in_days) * Day

-----------------------------------------------------------------------------
(* The pruning steps, pruning.py, as main() calls them on the project in   *)
(* hand.  A remote call may fail (GitlabError); nothing in main() or below *)
(* catches it, nor the ValueError of a created_at that does not parse, nor *)
(* the ArgumentError of steps 2 and 3, so each ends the run.               *)

\* The run leaves main() with exception e.
Abort(e) ==
    /\ pc' = "aborted"
    /\ ret' = Raised(e)

\* Mutant of AfterPruning: the migration is an elif of the local export.
AfterPruningElif ==
    IF flags.dry_run THEN "end"
    ELSE IF flags.has_destination THEN "migrate"
    ELSE IF flags.export_locally THEN "export"
    ELSE "end"

\* The statement after step 5, main.py 115-131.
AfterPruning ==
    IF flags.dry_run THEN "end"
    ELSE IF flags.export_locally THEN "export"
    ELSE IF flags.has_destination THEN "migrate"
    ELSE "end"

Started(step) == calls' = [calls EXCEPT !.steps = Append(@, step)]

\* for x in candidates: x.delete(), of which the first k calls succeed.
Prefix(candidates, k) == SubSeq(candidates, 1, k)

\* How a step's n delete calls may go: the call after k successful ones
\* raises (0 <= k < n), or all n succeed (n).
Outcomes(n) == 0..n

\* Mutant of CallersList: the list worked on is the caller's own list object.
CallersListShared(branches_to_validate, branch_refs) == branch_refs

\* What main()'s preserve_branches holds after a call that left the list it
\* worked on as branch_refs.  The two are different objects: step 1 collects
\* into a new list (branch_refs = [], gitlab_utils.py 99-100) and hands each
\* name to validate_branch_list as a str, which wraps it in a new list
\* (pruning.py 242); steps 2 and 3 change the list step 1 returned.
CallersList(branches_to_validate, branch_refs) == branches_to_validate

\* Step 1, main.py 86-89: get_rectified_branches_refs(project, preserve_branches).
Rectify ==
    /\ pc = "rectify"
    /\ \/ /\ exclude_branch_refs' =
                GetRectifiedBranchesRefs(preserve_branches, Existing(project), TRUE)
          /\ preserve_branches' = CallersList(preserve_branches, exclude_branch_refs')
          /\ pc' = "step2"
          /\ ret' = Returned(<<>>)
       \/ \* project.branches.list() raises, pruning.py 244-251: it is called
          \* for a name that passed the length check of line 236.
          /\ \E i \in 1..Len(preserve_branches) : preserve_branches[i] # ""
          /\ Abort("GitlabError")
          /\ UNCHANGED <<exclude_branch_refs, preserve_branches>>
    /\ Started("rectify")
    /\ UNCHANGED <<args, idx, project, clock, reads>>

\* filter(lambda x: x.ref not in protected_list, pipelines), lines 201-204.
FilterUnprotected(pipelines, protected_list) ==
    SelectSeq(pipelines, LAMBDA x : x.ref \notin Range(protected_list))

\* What the filter object still yields after len(list(deletion_candidates)) in
\* the f-string of lines 205-207 has run through it: nothing.
AfterCounting(deletion_candidates) == <<>>

\* if not dry_run: for pipeline in deletion_candidates: pipeline.delete(), 209-212.
Step2Deletes(dry_run, deletion_candidates) ==
    IF dry_run THEN <<>> ELSE deletion_candidates

\* Step 2, main.py 91-95: delete_non_protected_branch_pipelines.
DeleteNonProtectedBranchPipelines ==
    /\ pc = "step2"
    /\ LET v == ValidateBranchList(exclude_branch_refs, Existing(project))
           deletion_candidates ==
               AfterCounting(FilterUnprotected(project.pipelines, v.value))
           to_delete == Step2Deletes(flags.dry_run, deletion_candidates)
       IN  \/ \* project.branches.list() of validate_branch_list raises,
              \* pruning.py 244-251, before the list is touched.
              /\ Len(exclude_branch_refs) >= 1
              /\ Abort("GitlabError")
              /\ Started("step2")
              /\ UNCHANGED <<exclude_branch_refs, preserve_branches, project>>
           \/ \* validate_branch_list raises ArgumentError.
              /\ v.exc # "none"
              /\ Abort(v.exc)
              /\ Started("step2")
              /\ exclude_branch_refs' = v.list
              /\ preserve_branches' = CallersList(preserve_branches, v.list)
              /\ UNCHANGED project
           \/ \* project.pipelines.list() raises, lines 193-198.
              /\ v.exc = "none"
              /\ Abort("GitlabError")
              /\ Started("step2")
              /\ exclude_branch_refs' = v.list
              /\ preserve_branches' = CallersList(preserve_branches, v.list)
              /\ UNCHANGED project
           \/ /\ v.exc = "none"
              /\ exclude_branch_refs' = v.list
              /\ preserve_branches' = CallersList(preserve_branches, v.list)
              /\ \E k \in Outcomes(Len(to_delete)) :
                    /\ calls' = [calls EXCEPT
                          !.steps = Append(@, "step2"),
                          !.pipelines_fetched = @ + 1,
                          !.step2_listed = project.pipelines,
                          !.step2_deleted = Ids(Prefix(to_delete, k))]
                    /\ project' = [project EXCEPT !.pipelines =
                          SelectSeq(@, LAMBDA x : x \notin Range(Prefix(to_delete, k)))]
                    /\ IF k = Len(to_delete)
                       THEN pc' = "step3" /\ ret' = Returned(<<>>)
                       ELSE Abort("GitlabError")
    /\ UNCHANGED <<args, idx, clock, reads>>

\* if b.name not in protected_branches, lines 333-336.
UnprotectedBranches(all_branches, protected_branches) ==
    SelectSeq(all_branches, LAMBDA b : b \notin Range(protected_branches))

\* Mutant of Step3Deletes: the dry_run gate of line 340 is lost.
Step3DeletesAlways(dry_run, deletion_candidates) == deletion_candidates

\* if not dry_run: for branch in deletion_candidates: branch.delete(), 340-343.
Step3Deletes(dry_run, deletion_candidates) ==
    IF dry_run THEN <<>> ELSE deletion_candidates

\* Step 3, main.py 97-101: delete_branches.
DeleteBranches ==
    /\ pc = "step3"
    /\ LET v == ValidateBranchList(exclude_branch_refs, Existing(project))
           to_delete == Step3Deletes(flags.dry_run,
                                     UnprotectedBranches(project.branches, v.value))
       IN  \/ \* project.branches.list() of validate_branch_list raises,
              \* pruning.py 244-251, before the list is touched.
              /\ Len(exclude_branch_refs) >= 1
              /\ Abort("GitlabError")
              /\ Started("step3")
              /\ UNCHANGED <<exclude_branch_refs, preserve_branches, project>>
           \/ \* validate_branch_list raises ArgumentError.
              /\ v.exc # "none"
              /\ Abort(v.exc)
              /\ Started("step3")
              /\ exclude_branch_refs' = v.list
              /\ preserve_branches' = CallersList(preserve_branches, v.list)
              /\ UNCHANGED project
           \/ \* project.branches.list() of lines 326-331 raises.
              /\ v.exc = "none"
              /\ Abort("GitlabError")
              /\ Started("step3")
              /\ exclude_branch_refs' = v.list
              /\ preserve_branches' = CallersList(preserve_branches, v.list)
              /\ UNCHANGED project
           \/ /\ v.exc = "none"
              /\ exclude_branch_refs' = v.list
              /\ preserve_branches' = CallersList(preserve_branches, v.list)
              /\ \E k \in Outcomes(Len(to_delete)) :
                    /\ calls' = [calls EXCEPT !.steps = Append(@, "step3"),
                                              !.branches_deleted = Prefix(to_delete, k)]
                    /\ project' = [project EXCEPT !.branches =
                          SelectSeq(@, LAMBDA b : b \notin Range(Prefix(to_delete, k)))]
                    /\ IF k = Len(to_delete)
                       THEN pc' = "step4" /\ ret' = Returned(<<>>)
                       ELSE Abort("GitlabError")
    /\ UNCHANGED <<args, idx, clock, reads>>

\* Mutant of PipelinesToDelete: pipelines on a protected branch are spared.
PipelinesToDeleteSparingProtected(pipelines, p, rd) ==
    LET e == ExtractDeletionCandidates(pipelines, p, rd)
    IN  [e EXCEPT !.value =
            SelectSeq(@, LAMBDA x : x.ref \notin Range(exclude_branch_refs))]

\* pipelines_to_delete = extract_deletion_candidates(project, policy, "pipeline"),
\* lines 100-104.
PipelinesToDelete(pipelines, p, rd) == ExtractDeletionCandidates(pipelines, p, rd)

\* if not dry_run: for pipeline in pipelines_to_delete: pipeline.delete(), 109-112.
Step4Deletes(dry_run, pipelines_to_delete) ==
    IF dry_run THEN <<>> ELSE pipelines_to_delete

\* Mutant of PipelinesForStep4: step 4 works on the list step 2 fetched.
PipelinesFromStep2 ==
    [fetched |-> calls.pipelines_fetched, list |-> calls.step2_listed]

\* base.list(get_all=True) of extract_deletion_candidates, lines 135-141 and
\* 146-149, as delete_pipelines reaches it: a list call of its own on the
\* project as it is when step 4 begins.
PipelinesForStep4 ==
    [fetched |-> calls.pipelines_fetched + 1, list |-> project.pipelines]

\* Step 4, main.py 103-107: delete_pipelines.
DeletePipelines ==
    /\ pc = "step4"
    /\ \/ \* base.list() raises, pruning.py 146-149: nothing was sorted, the
          \* cutoff was never evaluated and the clock never read.
          /\ Abort("GitlabError")
          /\ Started("step4")
          /\ reads' = <<>>
          /\ UNCHANGED <<project, clock>>
       \/ LET pipelines == PipelinesForStep4
          IN  \E rd \in ClockReads(Evaluations(pipelines.list, preservation_policy), clock) :
             LET e == PipelinesToDelete(pipelines.list, preservation_policy, rd)
                 to_delete == Step4Deletes(flags.dry_run, e.value)
             IN  /\ reads' = rd
                 /\ clock' = IF rd = <<>> THEN clock ELSE rd[Len(rd)]
                 /\ IF e.exc # "none"
                    THEN /\ Abort(e.exc)
                         /\ calls' = [calls EXCEPT !.steps = Append(@, "step4"),
                                                   !.pipelines_fetched = pipelines.fetched,
                                                   !.step4_listed = pipelines.list]
                         /\ UNCHANGED project
                    ELSE \E k \in Outcomes(Len(to_delete)) :
                            /\ calls' = [calls EXCEPT
                                  !.steps = Append(@, "step4"),
                                  !.pipelines_fetched = pipelines.fetched,
                                  !.step4_listed = pipelines.list,
                                  !.step4_deleted = Ids(Prefix(to_delete, k))]
                            /\ project' = [project EXCEPT !.pipelines =
                                  SelectSeq(@, LAMBDA x : x \notin Range(Prefix(to_delete, k)))]
                            /\ IF k = Len(to_delete)
                               THEN pc' = "step5" /\ ret' = Returned(<<>>)
                               ELSE Abort("GitlabError")
    /\ UNCHANGED <<args, preserve_branches, idx, exclude_branch_refs>>

\* if not dry_run: for release in releases_to_delete: ...delete(...), 294-297.
Step5Deletes(dry_run, releases_to_delete) ==
    IF dry_run THEN <<>> ELSE releases_to_delete

\* Step 5, main.py 109-113: delete_releases.
DeleteReleases ==
    /\ pc = "step5"
    /\ \/ \* base.list() raises, pruning.py 146-149: nothing was sorted, the
          \* cutoff was never evaluated and the clock never read.
          /\ Abort("GitlabError")
          /\ Started("step5")
          /\ reads' = <<>>
          /\ UNCHANGED <<project, clock>>
       \/ \E rd \in ClockReads(Evaluations(project.releases, preservation_policy), clock) :
             LET e == ExtractDeletionCandidates(project.releases, preservation_policy, rd)
                 to_delete == Step5Deletes(flags.dry_run, e.value)
             IN  /\ reads' = rd
                 /\ clock' = IF rd = <<>> THEN clock ELSE rd[Len(rd)]
                 /\ IF e.exc # "none"
                    THEN /\ Abort(e.exc)
                         /\ Started("step5")
                         /\ UNCHANGED project
                    ELSE \E k \in Outcomes(Len(to_delete)) :
                            /\ calls' = [calls EXCEPT !.steps = Append(@, "step5"),
                                                      !.releases_deleted = Tags(Prefix(to_delete, k))]
                            /\ project' = [project EXCEPT !.releases =
                                  SelectSeq(@, LAMBDA x : x \notin Range(Prefix(to_delete, k)))]
                            /\ IF k = Len(to_delete)
                               THEN pc' = AfterPruning /\ ret' = Returned(<<>>)
                               ELSE Abort("GitlabError")
    /\ UNCHANGED <<args, preserve_branches, idx, exclude_branch_refs>>

-----------------------------------------------------------------------------
(* main(), main.py 26-131: the loop over the group's projects.             *)

\* What origin_gitlab.projects.get() may find: the projects of the runs.
LightBranches == {BranchesOf(S) : S \in {{"main", "dev"}, {"dev", "feat"}, {"master", "feat"}}}
LightPipelines ==
    {<<>>,
     <<Pipeline(1, "main", 0), Pipeline(2, "dev", MaxTime)>>,
     <<Pipeline(1, "dev", Malformed)>>}
LightReleases == {<<>>, <<Release(1, 0), Release(2, MaxTime)>>}
LightProjects ==
    [archived : BOOLEAN, branches : LightBranches,
     pipelines : LightPipelines, releases : LightReleases]

\* The policies and --pb lists of the runs.
LightPolicies == {Policy(Some(1), None, None), Policy(None, None, Some(MaxTime))}
LightPreserve == {<<>>, <<"dev">>}

\* The answers input() may return.
Answers == {"y", "Y", "n", "N", "", "x"}

\* str.lower() on an answer.
Lower(a) == IF a = "Y" THEN "y" ELSE IF a = "N" THEN "n" ELSE a

Init ==
    /\ flags \in [dry_run : BOOLEAN, include_archived_projects : BOOLEAN,
                  prompt_every_project : BOOLEAN, export_locally : BOOLEAN,
                  has_destination : BOOLEAN]
    /\ preservation_policy \in LightPolicies
    /\ preserve_branches \in LightPreserve
    /\ nprojects \in 1..MaxProjects
    /\ idx = 1
    /\ pc = "fetch"
    /\ project = NoProject
    /\ exclude_branch_refs = <<>>
    /\ calls = NoCalls
    /\ clock = Today
    /\ reads = <<>>
    /\ ret = Returned(<<>>)

\* Mutant of SkipsArchived: the `not` of line 73 is lost.
SkipsArchivedWhenIncluded(archived, include_archived_projects) ==
    archived /\ include_archived_projects

\* if project.archived and not include_archived_projects: continue, lines 73-74.
SkipsArchived(archived, include_archived_projects) ==
    archived /\ ~include_archived_projects

\* Lines 68-76: the next project is fetched; an archived one is skipped unless
\* archived projects are included.
GetProject ==
    /\ pc = "fetch"
    /\ idx <= nprojects
    /\ \/ \E p \in LightProjects :
             /\ project' = p
             /\ pc' = IF SkipsArchived(p.archived, flags.include_archived_projects)
                      THEN "end"
                      ELSE IF flags.prompt_every_project THEN "prompt"
                      ELSE "rectify"
             /\ ret' = Returned(<<>>)
       \/ /\ Abort("GitlabError")
          /\ UNCHANGED project
    /\ UNCHANGED <<args, preserve_branches, idx, exclude_branch_refs, calls, clock, reads>>

\* Lines 79-84: answer = input(msg).lower(); the KeyError of line 82 is built
\* and not raised; "n" and "" skip the project.
Prompt ==
    /\ pc = "prompt"
    /\ \E typed \in Answers :
          LET answer == Lower(typed)
          IN  /\ pc' = IF answer = "n" \/ answer = "" THEN "end" ELSE "rectify"
              /\ calls' = [calls EXCEPT !.steps = Append(@, typed)]
    /\ UNCHANGED <<args, preserve_branches, idx, project, exclude_branch_refs,
                   clock, reads, ret>>

\* main.py 116-120, export_local(project, export_path), import_export.py
\* 151-175, up to project.exports.create() of line 34: the file is opened
\* under export_path, which nothing creates, and the export is requested.
ExportLocal ==
    /\ pc = "export"
    /\ \/ \* open(export_url, "wb") raises, line 171: no such directory.
          /\ Started("export")
          /\ Abort("FileNotFoundError")
       \/ \* project.exports.create() raises, line 34.
          /\ Started("export")
          /\ Abort("GitlabError")
       \/ /\ calls' = [calls EXCEPT !.steps = Append(@, "export"), !.exported = @ + 1]
          /\ pc' = "export_wait"
          /\ ret' = Returned(<<>>)
    /\ UNCHANGED <<args, preserve_branches, idx, project, exclude_branch_refs,
                   clock, reads>>

\* export_project_to_file after the export was created, import_export.py
\* 36-46: export.refresh() until export_status is "finished", then
\* export.download().  While the status is not "finished" the loop goes on,
\* for ever if it never is: the action is then not taken.
AwaitExport ==
    /\ pc \in {"export_wait", "migrate_wait"}
    /\ \/ \* export.refresh() or export.download() raises.
          Abort("GitlabError")
       \/ /\ pc' = IF pc = "migrate_wait" THEN "import"
                   ELSE IF flags.has_destination THEN "migrate"
                   ELSE "end"
          /\ ret' = Returned(<<>>)
    /\ UNCHANGED <<args, preserve_branches, idx, project, exclude_branch_refs,
                   calls, clock, reads>>

\* main.py 122-126, migrate_project(project, destination_group),
\* import_export.py 110-117, up to project.exports.create() of line 34: the
\* export into a file of a temporary directory is requested.
MigrateProject ==
    /\ pc = "migrate"
    /\ \/ \* project.exports.create() raises, line 34.
          /\ Started("migrate")
          /\ Abort("GitlabError")
       \/ /\ calls' = [calls EXCEPT !.steps = Append(@, "migrate"), !.exported = @ + 1]
          /\ pc' = "migrate_wait"
          /\ ret' = Returned(<<>>)
    /\ UNCHANGED <<args, preserve_branches, idx, project, exclude_branch_refs,
                   clock, reads>>

\* import_project_from_file, import_export.py 66-82: the exported file is
\* sent to the destination with gl.projects.import_project(); the lazy
\* projects.get() of lines 79-82 makes no request.
ImportProject ==
    /\ pc = "import"
    /\ \/ \* gl.projects.import_project() raises, lines 71-76.
          /\ Abort("GitlabError")
          /\ UNCHANGED calls
       \/ /\ calls' = [calls EXCEPT !.imported = @ + 1]
          /\ pc' = "import_wait"
          /\ ret' = Returned(<<>>)
    /\ UNCHANGED <<args, preserve_branches, idx, project, exclude_branch_refs,
                   clock, reads>>

\* import_project_from_file, import_export.py 83-94: new_project.imports.get()
\* and project_import.refresh() until import_status is "finished"; a status
\* of "failed" raises GitlabCreateError.  While the status is neither, the
\* loop goes on, for ever if it never is: the action is then not taken.
AwaitImport ==
    /\ pc = "import_wait"
    /\ \/ \* imports.get() or project_import.refresh() raises.
          Abort("GitlabError")
       \/ \* import_status == "failed", lines 85-88.
          Abort("GitlabCreateError")
       \/ /\ pc' = "copy"
          /\ ret' = Returned(<<>>)
    /\ UNCHANGED <<args, preserve_branches, idx, project, exclude_branch_refs,
                   calls, clock, reads>>

\* main.py 127-131, copy_variables(project, destination_project.id, dry_run),
\* import_export.py 139-148.  The second argument is the id, an int, so the
\* first variables.create call, when the origin project has a variable,
\* raises AttributeError.
CopyVariables ==
    /\ pc = "copy"
    /\ Started("copy")
    /\ \/ \* origin_project.variables.list() raises, line 140.
          Abort("GitlabError")
       \/ \E project_variables \in 0..1 :
             IF project_variables = 0
             THEN pc' = "end" /\ ret' = Returned(<<>>)
             ELSE Abort("AttributeError")
    /\ UNCHANGED <<args, preserve_branches, idx, project, exclude_branch_refs,
                   clock, reads>>

\* The for loop of line 68 moves to the next project.
NextIteration ==
    /\ pc = "end"
    /\ idx' = idx + 1
    /\ pc' = "fetch"
    /\ project' = NoProject
    /\ exclude_branch_refs' = <<>>
    /\ calls' = NoCalls
    /\ reads' = <<>>
    /\ ret' = Returned(<<>>)
    /\ UNCHANGED <<args, preserve_branches, clock>>

\* The loop is over: main() returns.
Finish ==
    /\ pc = "fetch"
    /\ idx > nprojects
    /\ pc' = "done"
    /\ UNCHANGED <<args, preserve_branches, idx, project, exclude_branch_refs,
                   calls, clock, reads, ret>>

Next ==
    \/ GetProject
    \/ Prompt
    \/ Rectify
    \/ DeleteNonProtectedBranchPipelines
    \/ DeleteBranches
    \/ DeletePipelines
    \/ DeleteReleases
    \/ ExportLocal
    \/ AwaitExport
    \/ MigrateProject
    \/ ImportProject
    \/ AwaitImport
    \/ CopyVariables
    \/ NextIteration
    \/ Finish

Spec == Init /\ [][Next]_vars

-----------------------------------------------------------------------------
(* The pruning pass over one project, steps 1 to 5, on its own.            *)

PrunePipelines ==
    {[i \in 1..Len(k) |-> Pipeline(i, k[i][1], k[i][2])] :
        k \in SeqsUpTo({"main", "dev"} \X {0, MaxTime}, MaxPipelines)}
PruneReleases == {<<Release(1, 0), Release(2, MaxTime)>>}
PrunePolicies ==
    {Policy(Some(1), None, None), Policy(None, None, Some(MaxTime)),
     Policy(None, Some(1), None)}
PrunePreserve == {<<>>, <<"dev">>, <<"main">>, <<"feat", "dev">>}

InitPrune ==
    /\ flags \in {[NoFlags EXCEPT !.dry_run = d] : d \in BOOLEAN}
    /\ preservation_policy \in PrunePolicies
    /\ preserve_branches \in PrunePreserve
    /\ nprojects = 1
    /\ idx = 1
    /\ pc = "rectify"
    /\ project \in [archived : {FALSE},
                    branches : {BranchesOf(S) : S \in SUBSET BranchNames},
                    pipelines : PrunePipelines,
                    releases : PruneReleases]
    \* A policy that reads the clock once per item is run on one set of
    \* branches, with every list of pipelines.
    /\ ReadsClock(preservation_policy) =>
           /\ preserve_branches = <<>>
           /\ project.branches = BranchesOf({"main", "dev"})
    /\ exclude_branch_refs = <<>>
    /\ calls = NoCalls
    /\ clock = Today
    /\ reads = <<>>
    /\ ret = Returned(<<>>)

NextPrune ==
    \/ Rectify
    \/ DeleteNonProtectedBranchPipelines
    \/ DeleteBranches
    \/ DeletePipelines
    \/ DeleteReleases

SpecPrune == InitPrune /\ [][NextPrune]_vars

-----------------------------------------------------------------------------
(* extract_deletion_candidates on its own.                                 *)

\* The lists project.pipelines.list() / project.releases.list() may give.
PipelineLists ==
    {[i \in 1..Len(st) |-> Pipeline(i, "main", st[i])] : st \in SeqsUpTo(Stamps, MaxItems)}
ReleaseLists ==
    {[i \in 1..Len(st) |-> Release(i, st[i])] : st \in SeqsUpTo(Stamps, MaxItems)}

InitExtract ==
    /\ flags = NoFlags
    /\ preservation_policy \in ValidPolicies
    /\ preserve_branches = <<>>
    /\ nprojects = 1
    /\ idx = 1
    /\ pc = "extract"
    /\ project \in {[NoProject EXCEPT !.pipelines = l] : l \in PipelineLists}
                   \cup {[NoProject EXCEPT !.releases = l] : l \in ReleaseLists}
    /\ ReadsClock(preservation_policy) =>
           Len(project.pipelines) <= MaxTimed /\ Len(project.releases) <= MaxTimed
    /\ exclude_branch_refs = <<>>
    /\ calls = NoCalls
    /\ clock \in ClockRange
    /\ reads = <<>>
    /\ ret = Returned(<<>>)

\* extract_deletion_candidates(project, preservation_policy, candidate_type).
ExtractCall(candidate_type) ==
    /\ pc = "extract"
    /\ \/ \* base.list() raises, lines 146-149: the error goes to the caller,
          \* nothing was sorted and the clock was never read.
          /\ ret' = Raised("GitlabError")
          /\ reads' = <<>>
          /\ UNCHANGED clock
       \/ LET items == Listed(project, candidate_type)
          IN  \E rd \in ClockReads(Evaluations(items, preservation_policy), clock) :
                 /\ ret' = ExtractDeletionCandidates(items, preservation_policy, rd)
                 /\ reads' = rd
                 /\ clock' = IF rd = <<>> THEN clock ELSE rd[Len(rd)]
    /\ calls' = [calls EXCEPT !.steps = <<candidate_type>>]
    /\ pc' = "extracted"
    /\ UNCHANGED <<args, preserve_branches, idx, project, exclude_branch_refs>>

NextExtract ==
    \E candidate_type \in {"pipeline", "release"} : ExtractCall(candidate_type)

SpecExtract == InitExtract /\ [][NextExtract]_vars

-----------------------------------------------------------------------------
(* C6, C7: the candidates of one extraction.                               *)

\* The items the finished extraction listed.
ExtractedFrom == Listed(project, calls.steps[1])

\* C6: in count mode with retain count n, the extraction returns nothing when
\* n >= len(items); otherwise it returns len(items) - n of the items, each
\* once, none of them more recent than an item it retains, so that an item
\* with fewer than n other items at least as recent is never a candidate.
C6_CountMode ==
    (pc = "extracted" /\ ret.exc = "none"
        /\ ~IsNone(preservation_policy.retain_number_of_instances)) =>
        LET items == ExtractedFrom
            n == Val(preservation_policy.retain_number_of_instances)
            res == ret.value
            kept == Range(items) \ Range(res)
        IN  /\ n >= Len(items) => res = <<>>
            /\ n < Len(items) =>
                  /\ Len(res) = Len(items) - n
                  /\ Range(res) \subseteq Range(items)
                  /\ Cardinality(Range(res)) = Len(res)
                  /\ \A k \in kept, d \in Range(res) : k.created_at >= d.created_at
            /\ \A x \in Range(items) :
                  Cardinality({y \in Range(items) \ {x} : y.created_at >= x.created_at}) < n
                      => x \notin Range(res)

\* Three items with three different dates, listed oldest first, and a
\* retain count of 1: the two oldest are the candidates.
C6_Witness ==
    /\ pc = "extracted"
    /\ ret.exc = "none"
    /\ preservation_policy.retain_number_of_instances = Some(1)
    /\ Len(ExtractedFrom) = 3
    /\ ExtractedFrom[1].created_at = 0
    /\ ExtractedFrom[2].created_at = 2
    /\ ExtractedFrom[3].created_at = 1
    /\ Len(ret.value) = 2
    /\ ret.value[1] = ExtractedFrom[3]
    /\ ret.value[2] = ExtractedFrom[1]

\* The cutoffs in force during the finished extraction: one per evaluation
\* when the policy reads the clock, else the one fixed date.
CutoffsUsed ==
    IF ReadsClock(preservation_policy)
    THEN {IF IsNone(preservation_policy.minimum_creation_date)
          \/ reads[i] - Val(preservation_policy.maximum_age_in_days) * Day
                 >= Val(preservation_policy.minimum_creation_date)
          THEN reads[i] - Val(preservation_policy.maximum_age_in_days) * Day
          ELSE Val(preservation_policy.minimum_creation_date) : i \in 1..Len(reads)}
    ELSE {Val(preservation_policy.minimum_creation_date)}

\* C7: in age mode, an item created before every cutoff in force during the
\* extraction is a candidate and an item created at or after every such
\* cutoff is not; with one cutoff C (the clock did not move between two
\* evaluations, or the policy does not read it) the candidates are exactly
\* the items with created_at < C, and an item created at C is retained.
C7_AgeMode ==
    (pc = "extracted" /\ ret.exc = "none"
        /\ IsNone(preservation_policy.retain_number_of_instances)) =>
        /\ Range(ret.value) \subseteq Range(ExtractedFrom)
        /\ \A x \in Range(ExtractedFrom) :
              /\ (\A c \in CutoffsUsed : x.created_at < c) => x \in Range(ret.value)
              /\ (\A c \in CutoffsUsed : x.created_at >= c) => x \notin Range(ret.value)

\* An extraction under max-age policy read the clock once per item and saw
\* one cutoff; an item created exactly then was retained, an older one chosen.
C7_Witness ==
    /\ pc = "extracted"
    /\ ret.exc = "none"
    /\ ReadsClock(preservation_policy)
    /\ Cardinality(CutoffsUsed) = 1
    /\ Len(reads) >= 2
    /\ \E x \in Range(ExtractedFrom) : x.created_at \in CutoffsUsed /\ x \notin Range(ret.value)
    /\ \E x \in Range(ret.value) : \A c \in CutoffsUsed : x.created_at < c

-----------------------------------------------------------------------------
(* validate_branch_list and get_rectified_branches_refs on their own.      *)

InitBranch ==
    /\ flags = NoFlags
    /\ preservation_policy = Policy(Some(1), None, None)
    /\ preserve_branches \in SeqsUpTo(RequestNames, MaxRequested)
    /\ exclude_branch_refs = preserve_branches
    /\ nprojects = 1
    /\ idx = 1
    /\ pc = "validate"
    /\ project \in {[NoProject EXCEPT !.branches = BranchesOf(S)] : S \in SUBSET BranchNames}
    /\ calls = NoCalls
    /\ clock = Today
    /\ reads = <<>>
    /\ ret = Returned(<<>>)

\* validate_branch_list(branch=exclude_branch_refs, project=project): the list
\* passed is the list the function mutates and returns.
ValidateCall ==
    /\ pc = "validate"
    /\ \/ \* project.branches.list() raises, lines 244-251, after the length
          \* check of line 236 and before the list is touched.
          /\ Len(exclude_branch_refs) >= 1
          /\ ret' = Raised("GitlabError")
          /\ UNCHANGED exclude_branch_refs
       \/ LET r == ValidateBranchList(exclude_branch_refs, Existing(project))
          IN  /\ ret' = [exc |-> r.exc, value |-> r.value]
              /\ exclude_branch_refs' = r.list
    /\ pc' = "validated"
    /\ UNCHANGED <<args, preserve_branches, idx, project, calls, clock, reads>>

\* validate_branch_list(branch=b, project=project) with b a str.
ValidateStrCall(b) ==
    /\ pc = "validate"
    /\ \/ \* project.branches.list() raises, lines 244-251, for a name that
          \* passed the length check of line 236.
          /\ b # ""
          /\ ret' = Raised("GitlabError")
       \/ LET r == ValidateBranchStr(b, Existing(project))
          IN  ret' = [exc |-> r.exc, value |-> r.value]
    /\ calls' = [calls EXCEPT !.steps = <<b>>]
    /\ pc' = "validated_str"
    /\ UNCHANGED <<args, preserve_branches, idx, project, exclude_branch_refs,
                   clock, reads>>

\* get_rectified_branches_refs(project, preserve_branches, extend_with_defaults).
RectifyCall(extend_with_defaults) ==
    /\ pc = "validate"
    /\ \/ \* project.branches.list() of validate_branch_list raises at one of
          \* the names that passed its length check: only ArgumentError is
          \* caught, gitlab_utils.py 101-110, so the error goes to the caller.
          /\ \E i \in 1..Len(preserve_branches) : preserve_branches[i] # ""
          /\ ret' = Raised("GitlabError")
       \/ ret' = Returned(GetRectifiedBranchesRefs(preserve_branches, Existing(project),
                                                   extend_with_defaults))
    /\ calls' = [calls EXCEPT !.steps = <<IF extend_with_defaults THEN "extend" ELSE "plain">>]
    /\ pc' = "rectified"
    /\ UNCHANGED <<args, preserve_branches, idx, project, exclude_branch_refs,
                   clock, reads>>

NextBranch ==
    \/ ValidateCall
    \/ \E b \in RequestNames : ValidateStrCall(b)
    \/ \E e \in BOOLEAN : RectifyCall(e)

SpecBranch == InitBranch /\ [][NextBranch]_vars

-----------------------------------------------------------------------------
(* C10: branch validation.                                                 *)

IsDefault(b) == b = "main" \/ b = "master"

\* C10: validate_branch_list on a non-empty request, the project's branches
\* having been listed, fails with the unknown-branch error, returning no
\* list, exactly when some requested name
\* is neither an existing branch nor main/master; otherwise it returns the
\* requested names that exist, all of them, in the requested order, the
\* missing main/master dropped.  The same holds of a request given as one name.
C10_BranchValidation ==
    /\ (pc = "validated" /\ preserve_branches # <<>> /\ ret.exc # "GitlabError") =>
          LET req == preserve_branches
              existing == Existing(project)
              unknown == {b \in Range(req) : b \notin existing /\ ~IsDefault(b)}
          IN  /\ unknown # {} => (ret.exc = "UnknownBranch" /\ ret.value = <<>>)
              /\ unknown = {} =>
                    /\ ret.exc = "none"
                    /\ ret.value = SelectSeq(req, LAMBDA b : b \in existing)
    /\ (pc = "validated_str" /\ calls.steps[1] # "" /\ ret.exc # "GitlabError") =>
          LET b == calls.steps[1]
              existing == Existing(project)
          IN  /\ b \in existing => ret = Returned(<<b>>)
              /\ (b \notin existing /\ IsDefault(b)) => ret = Returned(<<>>)
              /\ (b \notin existing /\ ~IsDefault(b)) => ret = Raised("UnknownBranch")

\* ["main", "feat"] was validated against a project with feat and master but
\* no main: main was dropped without an error and feat was kept.
C10_Witness ==
    /\ pc = "validated"
    /\ preserve_branches = <<"main", "feat">>
    /\ Existing(project) = {"master", "feat"}
    /\ ret = Returned(<<"feat">>)

-----------------------------------------------------------------------------
(* C1 to C5: the run.                                                      *)

\* C1: in a dry run no delete call (pipeline, branch, release), no export, no
\* import and no variable creation is ever made.
C1_DryRunNoDestructiveCall ==
    flags.dry_run =>
        /\ calls.step2_deleted = <<>>
        /\ calls.branches_deleted = <<>>
        /\ calls.step4_deleted = <<>>
        /\ calls.releases_deleted = <<>>
        /\ calls.exported = 0
        /\ calls.imported = 0
        /\ calls.variables_created = 0

\* A dry run went through the five steps on a project that has an unprotected
\* branch (dev) and, under a retain count of 1, a pipeline and a release to
\* delete; both projects of the group were fetched.
C1_Witness ==
    /\ flags.dry_run
    /\ pc = "end"
    /\ idx = 2
    /\ calls.steps = <<"rectify", "step2", "step3", "step4", "step5">>
    /\ preserve_branches = <<>>
    /\ project.branches = <<"main", "dev">>
    /\ preservation_policy.retain_number_of_instances = Some(1)
    /\ Len(project.pipelines) = 2
    /\ Len(project.releases) = 2

\* C2: in a non-dry run, when step 2 has completed, delete was called on
\* every pipeline whose ref is not in the protected list and on no other.
C2_Step2DeletesUnprotected ==
    (~flags.dry_run /\ pc = "step3") =>
        \A x \in Range(calls.step2_listed) :
            x.ref \notin Range(exclude_branch_refs)
                <=> x.id \in Range(calls.step2_deleted)

\* The branches the project had before step 3.
BranchesBeforeStep3 == Range(project.branches) \cup Range(calls.branches_deleted)

\* C3: in a non-dry run in which no remote call fails, the branches step 3
\* deletes are the project's branches minus the protected list (the names the
\* user asked to preserve, main and master).
C3_Step3DeletesUnprotected ==
    (~flags.dry_run /\ pc \notin {"fetch", "prompt", "rectify", "step2", "step3"}
        /\ "step3" \in Range(calls.steps) /\ ret.exc # "GitlabError") =>
        Range(calls.branches_deleted) =
            BranchesBeforeStep3 \ (Range(preserve_branches) \cup Range(DefaultBranches))

\* C4: in a non-dry run, when step 4 has completed, what it deleted is
\* decided by the policy and the dates alone: under a retain count n, the
\* len - n pipelines none of which is more recent than one it kept; under an
\* age policy, every pipeline created before the cutoffs in force and none
\* created at or after them, whatever branch the pipeline is on.
C4_Step4ByPolicyAlone ==
    (~flags.dry_run /\ pc = "step5") =>
        LET listed == Range(calls.step4_listed)
            deleted == {x \in listed : x.id \in Range(calls.step4_deleted)}
            p == preservation_policy
        IN  /\ Range(calls.step4_deleted) \subseteq {x.id : x \in listed}
            /\ ~IsNone(p.retain_number_of_instances) =>
                  /\ Cardinality(deleted) =
                        IF Val(p.retain_number_of_instances) < Cardinality(listed)
                        THEN Cardinality(listed) - Val(p.retain_number_of_instances)
                        ELSE 0
                  /\ \A k \in listed \ deleted, d \in deleted :
                        k.created_at >= d.created_at
            /\ IsNone(p.retain_number_of_instances) =>
                  \A x \in listed :
                     /\ (\A c \in CutoffsUsed : x.created_at < c) => x \in deleted
                     /\ (\A c \in CutoffsUsed : x.created_at >= c) => x \notin deleted

\* A non-dry run completed step 4 having deleted a pipeline of main, a branch
\* that exists and is in the protected list, and kept a pipeline of dev.
C4_Witness ==
    /\ ~flags.dry_run
    /\ pc = "step5"
    /\ "main" \in Range(exclude_branch_refs)
    /\ "main" \in Range(project.branches)
    /\ \E x \in Range(calls.step4_listed) :
          x.ref = "main" /\ x.id \in Range(calls.step4_deleted)
    /\ \E x \in Range(project.pipelines) : x.ref = "dev"

\* C5: a failure in a pruning step of one project (a remote call raising, a
\* created_at that does not parse) never ends the run while later projects
\* of the group remain.
C5_FailureIsolation ==
    ~(pc = "aborted" /\ "rectify" \in Range(calls.steps) /\ idx < nprojects)

-----------------------------------------------------------------------------
(* C11 to C20.                                                             *)

\* The user asked to protect a name, not main or master, that the project in
\* hand did not have when its pruning pass began.
UnknownRequested ==
    \E b \in Range(preserve_branches) : ~IsDefault(b) /\ b \notin BranchesBeforeStep3

\* C11 as stated: when a requested name other than main/master does not exist
\* in the project, the pruning pass fails with the unknown-branch error and
\* none of steps 2 to 5 runs for the project.
C11_UnknownBranchFatal ==
    (UnknownRequested /\ pc # "rectify" /\ ret.exc # "GitlabError") =>
        /\ ret.exc = "UnknownBranch"
        /\ calls.steps = <<"rectify">>

\* C11 as amended: no pruning pass ever fails with the unknown-branch error;
\* step 1 leaves a requested name the project does not have out of the
\* protected list, which is the requested names that exist, in the requested
\* order, followed by main and master, and the pass goes on to step 2.
C11_UnknownBranchOmitted ==
    /\ ret.exc # "UnknownBranch"
    /\ pc = "step2" =>
          exclude_branch_refs =
              SelectSeq(preserve_branches, LAMBDA b : b \in Existing(project))
                  \o DefaultBranches
    /\ (pc = "aborted" /\ calls.steps = <<"rectify">>) => ret.exc = "GitlabError"

\* dev was requested for a project without a dev branch, and the five steps
\* of a non-dry run all ran on the project.
C11_Witness ==
    /\ ~flags.dry_run
    /\ preserve_branches = <<"dev">>
    /\ "dev" \notin BranchesBeforeStep3
    /\ calls.steps = <<"rectify", "step2", "step3", "step4", "step5">>
    /\ ret.exc = "none"

\* A name stands at two places of the list.
HasDuplicate(s) == \E i, j \in 1..Len(s) : i < j /\ s[i] = s[j]

\* C12 as stated: the protected list computed with extend_with_defaults
\* contains no name twice, whatever is requested and whatever exists.
C12_NoDuplicates ==
    (pc = "rectified" /\ calls.steps = <<"extend">>) => ~HasDuplicate(ret.value)

\* C12 as amended: the list, when the project's branches could be listed and
\* one is returned, is the requested names that exist, each as often
\* as requested, followed by main and master once each; a name is in it twice
\* exactly when an existing name was requested twice or an existing main or
\* master was requested.
C12_DuplicatesOnlyOfExisting ==
    (pc = "rectified" /\ calls.steps = <<"extend">> /\ ret.exc # "GitlabError") =>
        LET req == preserve_branches
            existing == Existing(project)
            res == ret.value
            Count(q, b) == Cardinality({i \in 1..Len(q) : q[i] = b})
        IN  /\ ret.exc = "none"
            /\ \A b \in RequestNames :
                  Count(res, b) = (IF b \in existing THEN Count(req, b) ELSE 0)
                                   + (IF IsDefault(b) THEN 1 ELSE 0)
            /\ HasDuplicate(res) <=>
                  \E i \in 1..Len(req) :
                     /\ req[i] \in existing
                     /\ IsDefault(req[i]) \/ \E j \in 1..Len(req) : j # i /\ req[j] = req[i]

\* main was requested for a project that has a main branch: the list holds
\* main twice.
C12_Witness ==
    /\ pc = "rectified"
    /\ calls.steps = <<"extend">>
    /\ preserve_branches = <<"main">>
    /\ "main" \in Existing(project)
    /\ ret.value = <<"main", "main", "master">>

\* C13 as stated: when step 4 has completed, the project's pipelines were
\* fetched once, before step 2's deletions, and step 4 applied the policy to
\* that list.
C13_Step4UsesSnapshot ==
    pc = "step5" =>
        /\ calls.pipelines_fetched = 1
        /\ calls.step4_listed = calls.step2_listed

\* C13 as amended: step 4 fetches the project's pipelines anew, the second
\* fetch of the pass, and applies the policy to the pipelines the project has
\* after steps 2 and 3: those step 2 listed less those step 2 deleted, each
\* of which step 4 deletes or leaves on the project.
C13_Step4FetchesAnew ==
    pc = "step5" =>
        /\ calls.pipelines_fetched = 2
        /\ calls.step4_listed =
              SelectSeq(calls.step2_listed, LAMBDA x : x.id \notin Range(calls.step2_deleted))
        /\ \A x \in Range(calls.step4_listed) :
              x.id \in Range(calls.step4_deleted) <=> x \notin Range(project.pipelines)

\* A non-dry run completed step 4 on a project with two pipelines: they were
\* fetched a second time and the older one was deleted.
C13_Witness ==
    /\ pc = "step5"
    /\ ~flags.dry_run
    /\ calls.pipelines_fetched = 2
    /\ Len(calls.step4_listed) = 2
    /\ Len(calls.step4_deleted) = 1
    /\ Len(project.pipelines) = 1

\* The operations made on the project in hand, in the order they were made
\* (the answers to the prompt left out).
OpsDone == SelectSeq(calls.steps, LAMBDA step : step \notin Answers)

\* The operations of a processed project, in the order the claim gives.
OpsOfRun ==
    <<"rectify", "step2", "step3", "step4", "step5">>
    \o (IF ~flags.dry_run /\ flags.export_locally THEN <<"export">> ELSE <<>>)
    \o (IF ~flags.dry_run /\ flags.has_destination THEN <<"migrate", "copy">> ELSE <<>>)

IsPrefix(a, b) == Len(a) <= Len(b) /\ a = SubSeq(b, 1, Len(a))

\* C14: the operations made on a project are, at every moment, a beginning
\* of: protected list, step 2, step 3, step 4, step 5, then in a non-dry run
\* the local export, the migration and the variable copy that the options ask
\* for; a project is left only when it was skipped or all of them were made,
\* and the run moves to the next project only then, with no operation made
\* on it yet.
C14_Sequential ==
    /\ [](/\ IsPrefix(OpsDone, OpsOfRun)
          /\ pc = "end" => OpsDone \in {<<>>, OpsOfRun})
    /\ [][idx' # idx => (pc = "end" /\ idx' = idx + 1 /\ calls' = NoCalls)]_vars

\* The second project of a non-dry run with local export and a destination
\* went through all eight operations, in order.
C14_Witness ==
    /\ idx = 2
    /\ pc = "end"
    /\ ~flags.dry_run
    /\ calls.steps =
          <<"rectify", "step2", "step3", "step4", "step5", "export", "migrate", "copy">>

\* The place of an item in the list it was taken from.
Pos(items, x) == CHOOSE k \in 1..Len(items) : items[k] = x

\* C15: the candidates come most recent first, candidates of one date in the
\* order the input list has them; and in count mode, of the items of one
\* date, those retained stand before those chosen in the input list.
C15_StableDescending ==
    (pc = "extracted" /\ ret.exc = "none") =>
        LET items == ExtractedFrom
            res == ret.value
            kept == Range(items) \ Range(res)
        IN  /\ \A i, j \in 1..Len(res) :
                  i < j =>
                     /\ res[i].created_at >= res[j].created_at
                     /\ res[i].created_at = res[j].created_at
                            => Pos(items, res[i]) < Pos(items, res[j])
            /\ ~IsNone(preservation_policy.retain_number_of_instances) =>
                  \A k \in kept, d \in Range(res) :
                     k.created_at = d.created_at => Pos(items, k) < Pos(items, d)

\* Three items of one date under a retain count of 1: the first of the input
\* is retained, the second and third are the candidates, in that order.
C15_Witness ==
    /\ pc = "extracted"
    /\ ret.exc = "none"
    /\ preservation_policy.retain_number_of_instances = Some(1)
    /\ Len(ExtractedFrom) = 3
    /\ \A i \in 1..3 : ExtractedFrom[i].created_at = 1
    /\ ret.value = <<ExtractedFrom[2], ExtractedFrom[3]>>

\* The project in hand is archived and archived projects are not included.
ArchivedExcluded == project.archived /\ ~flags.include_archived_projects

\* C16: on an archived project, archived projects not being included, no
\* operation is ever made (no branch validation, no pipeline, branch or
\* release deletion, no export, no import), nothing fails, and the next step
\* of the run is the move to the next project of the group.
C16_ArchivedSkipped ==
    /\ [](ArchivedExcluded => (calls = NoCalls /\ pc = "end" /\ ret.exc = "none"))
    /\ [][ArchivedExcluded => (idx' = idx + 1 /\ pc' = "fetch")]_vars

\* The first project of a non-dry run with a destination was archived, with
\* pipelines, releases and an unprotected branch, and was left untouched.
C16_Witness ==
    /\ ArchivedExcluded
    /\ idx = 1
    /\ nprojects = 2
    /\ ~flags.dry_run
    /\ flags.has_destination
    /\ project.branches = <<"main", "dev">>
    /\ Len(project.pipelines) = 2
    /\ Len(project.releases) = 2
    /\ calls = NoCalls

\* C17: no step of a run changes the preserve-branches input or the policy,
\* and the protected list step 1 computes for a project is the one the
\* input and the project's own branches give.
C17_InputsUnchanged ==
    /\ [][/\ preserve_branches' = preserve_branches
          /\ preservation_policy' = preservation_policy]_vars
    /\ [](pc = "step2" =>
            exclude_branch_refs =
                GetRectifiedBranchesRefs(preserve_branches, Existing(project), TRUE))

\* On the second project of a run asked to preserve dev, step 2 has dropped
\* the missing master from the list step 1 computed; the input is as given.
C17_Witness ==
    /\ idx = 2
    /\ pc = "step3"
    /\ preserve_branches = <<"dev">>
    /\ exclude_branch_refs = <<"dev", "main">>
    /\ project.branches = <<"main", "dev">>

\* C18: the validations of the list step 1 computed, made inside step 2 and
\* then inside step 3, never fail with the empty-branch-list error, whatever
\* branches the project has.
C18_NoEmptyListError ==
    (\E step \in {"step2", "step3"} : step \in Range(calls.steps)) =>
        ret.exc # "EmptyBranchList"

\* C19: with prompting on, after an answer other than y or Y (n, N, the
\* empty answer, anything else) no delete, export or import call is made on
\* the project.
C19_OnlyYesProceeds ==
    (flags.prompt_every_project /\ calls.steps # <<>>
        /\ calls.steps[1] \notin {"y", "Y"}) =>
        /\ calls.step2_deleted = <<>>
        /\ calls.branches_deleted = <<>>
        /\ calls.step4_deleted = <<>>
        /\ calls.releases_deleted = <<>>
        /\ calls.exported = 0
        /\ calls.imported = 0

\* C20: in both modes the candidates are an end piece of the items sorted
\* most recent first, and no retained item is older than a candidate; in age
\* mode also when the clock moved between two evaluations of the cutoff.
\* The age loop reads the clock anew for every item, so a reading earlier
\* than the one before it retains an item older than one already chosen.
C20_CandidatesFormSuffix ==
    (pc = "extracted" /\ ret.exc = "none") =>
        LET items == ExtractedFrom
            res == ret.value
            sorted == [i \in 1..Len(items) |->
                         CHOOSE x \in Range(items) :
                            Cardinality({y \in Range(items) :
                                \/ y.created_at > x.created_at
                                \/ /\ y.created_at = x.created_at
                                   /\ Pos(items, y) < Pos(items, x)}) = i - 1]
            kept == Range(items) \ Range(res)
        IN  /\ Len(res) <= Len(items)
            /\ res = SubSeq(sorted, Len(items) - Len(res) + 1, Len(items))
            /\ \A k \in kept, d \in Range(res) : ~(k.created_at < d.created_at)

====
